---- MODULE Spec2Model ----
(***************************************************************************)
(* Model of the budgeting / allocation / goal / health-score engine of     *)
(* the Finance AI Coach application (src/utils.py) and of the request      *)
(* handlers of src/app.py that feed it.                                    *)
(*                                                                         *)
(* Money amounts are Python floats in the program.  All amounts used here  *)
(* are integers, and every quotient is kept as an exact fraction [n, d];   *)
(* the places where IEEE-754 double arithmetic differs from exact          *)
(* arithmetic on these inputs are modelled explicitly (see Times07).       *)
(***************************************************************************)
EXTENDS Integers, Sequences, FiniteSets, TLC

VARIABLES
    pc,            \* "call" before the function under study runs, then its name
    profile,       \* the profile dict handed to the engine
    transactions,  \* the transaction list handed to the engine
    goals,         \* the goal list handed to the health scorer
    goal_data,     \* the goal dict handed to calculate_goal_savings
    clock,         \* the system clock, as datetime.now() reads it
    allocation,    \* result of calculate_asset_allocation
    breakdown,     \* result of calculate_budget_breakdown
    savings_log,   \* one entry per call of calculate_goal_savings
    score,         \* result of calculate_financial_health_score
    user_profiles, \* the rows of the user_profiles table
    requests,      \* the POST /profile requests, each with its position
    transaction_rows,  \* the rows of the transactions table
    goal_rows,         \* the rows of the goals table
    request,           \* the last request served on transactions and goals
    service_call,      \* a GeminiService method, its arguments, the model's behaviour
    service_result,    \* what the GeminiService method returned or raised
    outcomes,          \* what generate_content does at each call of _safe_generate
    retries,           \* the retries argument of _safe_generate
    attempt,           \* the loop variable of _safe_generate
    waits,             \* the time.sleep() calls of _safe_generate, in order
    generated          \* what _safe_generate returned or raised

recordvars == <<transaction_rows, goal_rows, request>>

servicevars == <<service_call, service_result>>

retryvars == <<outcomes, retries, attempt, waits, generated>>

vars == <<pc, profile, transactions, goals, goal_data, clock,
          allocation, breakdown, savings_log, score, user_profiles, requests,
          recordvars, servicevars, retryvars>>

-----------------------------------------------------------------------------
(* Arithmetic helpers                                                      *)

Max(a, b) == IF a >= b THEN a ELSE b

Min(a, b) == IF a <= b THEN a ELSE b

\* Python's a / b, kept exact.  d = 0 is the operand pair on which Python
\* raises ZeroDivisionError.
Divide(a, b) == [n |-> a, d |-> b]

Raises(x) == x.d = 0

\* Comparisons of fractions with positive denominators.
FracLE(x, y) == x.n * y.d <= y.n * x.d

FracLT(x, y) == x.n * y.d < y.n * x.d

FracEQ(x, y) == x.n * y.d = y.n * x.d

\* Python 3 round(x) of the exact value n/d, d > 0: nearest integer, ties to
\* the even neighbour.
Round(n, d) ==
    LET q == n \div d
        r == n % d
    IN  IF 2 * r < d THEN q
        ELSE IF 2 * r > d THEN q + 1
        ELSE IF q % 2 = 0 THEN q ELSE q + 1

\* The largest power of two that is <= n/d (n/d >= 1).
RECURSIVE Binade(_, _, _)
Binade(n, d, p) == IF 2 * p * d <= n THEN Binade(n, d, 2 * p) ELSE p

\* round(remaining * 0.7) in double arithmetic, remaining a non-negative
\* integer.  The double 0.7 is 0.7 - 0.4 * 2^-53, so the exact product lies
\* 0.4 * remaining * 2^-53 below 7 * remaining / 10.  That changes the rounded
\* integer only when 7 * remaining / 10 is a tie k + 1/2 and the product is
\* rounded to the double below the tie, which happens when the deficit
\* exceeds half an ulp of the tie's binade: 2 * remaining > 5 * 2^e
\* (remaining = 45 gives 31.499999999999996, rounded to 31).
Times07(remaining) ==
    LET n    == 7 * remaining
        tie  == (n % 10) = 5
        p    == Binade(n, 10, 1)
    IN  IF tie /\ 2 * remaining > 5 * p THEN n \div 10 ELSE Round(n, 10)

\* round(remaining * 0.2): 2 * remaining / 10 is never a tie, and the error
\* of the double product is far below the distance to one.
Times02(remaining) == Round(2 * remaining, 10)

-----------------------------------------------------------------------------
(* AllocationPlanner: calculate_asset_allocation                           *)

emergency_fund_months == 6

RiskTolerances == {"conservative", "moderate", "aggressive"}

base_equity(age) == Max(100 - age, 20)

\* Mutant: the aggressive adjustment without its cap of 80.
equity_allocation_uncapped(age, risk_tolerance) ==
    IF risk_tolerance = "conservative" THEN Max(base_equity(age) - 20, 20)
    ELSE IF risk_tolerance = "aggressive" THEN base_equity(age) + 20
    ELSE base_equity(age)

equity_allocation(age, risk_tolerance) ==
    IF risk_tolerance = "conservative" THEN Max(base_equity(age) - 20, 20)
    ELSE IF risk_tolerance = "aggressive" THEN Min(base_equity(age) + 20, 80)
    ELSE base_equity(age)

calculate_asset_allocation(p) ==
    LET equity    == equity_allocation(p.age, p.risk_tolerance)
        remaining == 100 - equity
    IN  [equity                |-> Round(equity, 1),
         debt                  |-> Times07(remaining),
         gold                  |-> Times02(remaining),
         emergency_fund_amount |-> p.monthly_salary * emergency_fund_months,
         emergency_fund_months |-> emergency_fund_months]

-----------------------------------------------------------------------------
(* Strings.  A Python str is modelled as the sequence of its characters,   *)
(* so that str.lower() and the substring test `need in category` are       *)
(* computed rather than assumed.                                           *)

UpperCase == <<"A","B","C","D","E","F","G","H","I","J","K","L","M",
               "N","O","P","Q","R","S","T","U","V","W","X","Y","Z">>

LowerCase == <<"a","b","c","d","e","f","g","h","i","j","k","l","m",
               "n","o","p","q","r","s","t","u","v","w","x","y","z">>

\* str.lower()
lower(s) ==
    [i \in 1..Len(s) |->
        IF \E k \in 1..Len(UpperCase) : UpperCase[k] = s[i]
        THEN LowerCase[CHOOSE k \in 1..Len(UpperCase) : UpperCase[k] = s[i]]
        ELSE s[i]]

\* Python's `sub in s` for strings.
Contains(sub, s) ==
    \E i \in 0..(Len(s) - Len(sub)) : SubSeq(s, i + 1, i + Len(sub)) = sub

needs_categories ==
    << <<"g","r","o","c","e","r","i","e","s">>,
       <<"r","e","n","t">>,
       <<"u","t","i","l","i","t","i","e","s">>,
       <<"t","r","a","n","s","p","o","r","t","a","t","i","o","n">>,
       <<"i","n","s","u","r","a","n","c","e">>,
       <<"h","e","a","l","t","h","c","a","r","e">> >>

wants_categories ==
    << <<"e","n","t","e","r","t","a","i","n","m","e","n","t">>,
       <<"d","i","n","i","n","g">>,
       <<"s","h","o","p","p","i","n","g">>,
       <<"h","o","b","b","i","e","s">>,
       <<"t","r","a","v","e","l">> >>

\* any(k in category for k in keywords)
AnyIn(keywords, category) ==
    \E k \in 1..Len(keywords) : Contains(keywords[k], category)

\* The category strings that occur in the inputs of the model.
Salary == <<"s","a","l","a","r","y">>

RentalIncome == <<"r","e","n","t","a","l","_","i","n","c","o","m","e">>

Rent == <<"R","e","n","t">>

TravelInsurance ==
    <<"T","r","a","v","e","l"," ","I","n","s","u","r","a","n","c","e">>

Dining == <<"D","i","n","i","n","g">>

NetflixSubscription ==
    <<"N","e","t","f","l","i","x"," ","S","u","b","s","c","r","i","p","t","i","o","n">>

Categories ==
    {Salary, RentalIncome, Rent, TravelInsurance, Dining, NetflixSubscription}

\* any(need in category for need in needs_categories), category lower-cased,
\* tabulated once for the categories of the model.
MatchesNeeds == [c \in Categories |-> AnyIn(needs_categories, lower(c))]

\* any(want in category for want in wants_categories), likewise.
MatchesWants == [c \in Categories |-> AnyIn(wants_categories, lower(c))]

-----------------------------------------------------------------------------
(* BudgetAnalyzer: calculate_budget_breakdown                              *)

\* Mutant: expenses entered into the sums as negative amounts.
RECURSIVE SumOfTypeSigned(_, _)
SumOfTypeSigned(txns, type) ==
    IF txns = <<>> THEN 0
    ELSE (IF Head(txns).type = type
          THEN (IF type = "expense" THEN 0 - Head(txns).amount
                ELSE Head(txns).amount)
          ELSE 0)
         + SumOfTypeSigned(Tail(txns), type)

\* sum(t['amount'] for t in transactions if t['type'] == type)
RECURSIVE SumOfType(_, _)
SumOfType(txns, type) ==
    IF txns = <<>> THEN 0
    ELSE (IF Head(txns).type = type THEN Head(txns).amount ELSE 0)
         + SumOfType(Tail(txns), type)

\* What one pass of the loop body adds to needs_total.
NeedsPart(t) ==
    IF t.type = "expense" /\ MatchesNeeds[t.category]
    THEN t.amount ELSE 0

\* Mutant: `else` in place of `elif any(want in category ...)`.
WantsPartElse(t) ==
    IF t.type = "expense" /\ ~MatchesNeeds[t.category] THEN t.amount ELSE 0

\* Mutant: a second `if` in place of `elif`, the wants keywords looked up
\* even after a needs keyword matched.
WantsPartIf(t) ==
    IF t.type = "expense" /\ MatchesWants[t.category] THEN t.amount ELSE 0

\* What one pass of the loop body adds to wants_total (the elif branch).
WantsPart(t) ==
    IF /\ t.type = "expense"
       /\ ~MatchesNeeds[t.category]
       /\ MatchesWants[t.category]
    THEN t.amount ELSE 0

RECURSIVE needs_total(_)
needs_total(txns) ==
    IF txns = <<>> THEN 0 ELSE NeedsPart(Head(txns)) + needs_total(Tail(txns))

RECURSIVE wants_total(_)
wants_total(txns) ==
    IF txns = <<>> THEN 0 ELSE WantsPart(Head(txns)) + wants_total(Tail(txns))

\* Mutant: the guard lets total_income = 0 through.
PercentageGuardedFromBelow(amount, total_income) ==
    IF total_income >= 0 THEN Divide(amount * 100, total_income) ELSE Divide(0, 1)

\* (amount / total_income * 100) if total_income > 0 else 0
Percentage(amount, total_income) ==
    IF total_income > 0 THEN Divide(amount * 100, total_income) ELSE Divide(0, 1)

\* Mutant: the rule read as 50/20/30, the wants and savings shares swapped.
RecommendedSwapped(total_income, percent) ==
    Divide(total_income * (IF percent = 30 THEN 20
                           ELSE IF percent = 20 THEN 30 ELSE percent), 100)

\* total_income * 0.50, * 0.30, * 0.20.  The incomes of the model are
\* multiples of 100, for which the double product is the exact value.
Recommended(total_income, percent) == Divide(total_income * percent, 100)

calculate_budget_breakdown(txns) ==
    LET total_income   == SumOfType(txns, "income")
        total_expenses == SumOfType(txns, "expense")
        needs          == needs_total(txns)
        wants          == wants_total(txns)
        savings_total  == total_income - total_expenses
        needs_pct      == Percentage(needs, total_income)
        wants_pct      == Percentage(wants, total_income)
        savings_pct    == Percentage(savings_total, total_income)
        rec_needs      == Recommended(total_income, 50)
        rec_wants      == Recommended(total_income, 30)
        rec_savings    == Recommended(total_income, 20)
    IN  [raised |-> IF Raises(needs_pct) \/ Raises(wants_pct) \/ Raises(savings_pct)
                    THEN "ZeroDivisionError" ELSE "none",
         total_income   |-> total_income,
         total_expenses |-> total_expenses,
         needs   |-> [amount |-> needs, percentage |-> needs_pct,
                      recommended |-> rec_needs,
                      status |-> IF FracLE(Divide(needs, 1), rec_needs)
                                 THEN "good" ELSE "over"],
         wants   |-> [amount |-> wants, percentage |-> wants_pct,
                      recommended |-> rec_wants,
                      status |-> IF FracLE(Divide(wants, 1), rec_wants)
                                 THEN "good" ELSE "over"],
         savings |-> [amount |-> savings_total, percentage |-> savings_pct,
                      recommended |-> rec_savings,
                      status |-> IF FracLE(rec_savings, Divide(savings_total, 1))
                                 THEN "good" ELSE "under"]]

-----------------------------------------------------------------------------
(* GoalPlanner: calculate_goal_savings                                     *)

\* Mutant: whole months only, one less when the target day is not reached.
months_remaining_whole(target_date, today) ==
    (target_date.year - today.year) * 12 + (target_date.month - today.month)
    - (IF target_date.day < today.day THEN 1 ELSE 0)

\* (target_date.year - today.year) * 12 + (target_date.month - today.month)
months_remaining(target_date, today) ==
    (target_date.year - today.year) * 12 + (target_date.month - today.month)

\* max(monthly_savings, 0)
MaxWithZero(x) == IF FracLT(Divide(0, 1), x) THEN x ELSE Divide(0, 1)

\* Mutant: the current month counted as one more month to save in.
GoalSavingsInclusive(g, today) ==
    LET months == months_remaining(g.target_date, today)
    IN  IF months <= 0
        THEN Divide(g.target_amount - g.current_amount, 1)
        ELSE MaxWithZero(Divide(g.target_amount - g.current_amount, months + 1))

\* Mutant: the early return taken only once the target month has passed.
GoalSavingsPastOnly(g, today) ==
    LET months == months_remaining(g.target_date, today)
    IN  IF months < 0
        THEN Divide(g.target_amount - g.current_amount, 1)
        ELSE MaxWithZero(Divide(g.target_amount - g.current_amount, months))

\* The body of calculate_goal_savings after `today = datetime.now()`.
GoalSavingsAt(g, today) ==
    LET months == months_remaining(g.target_date, today)
    IN  IF months <= 0
        THEN Divide(g.target_amount - g.current_amount, 1)
        ELSE MaxWithZero(Divide(g.target_amount - g.current_amount, months))

\* calculate_goal_savings(goal_data): the only argument is the goal; the
\* date is read from the system clock inside the function.
calculate_goal_savings(g) == GoalSavingsAt(g, clock)

-----------------------------------------------------------------------------
(* HealthScorer: calculate_financial_health_score                          *)

FracAdd(x, y) == [n |-> x.n * y.d + y.n * x.d, d |-> x.d * y.d]

\* Mutant: the top emergency-fund tier needing more than six months.
EmergencyFundPointsAboveSix(p) ==
    LET months == IF p.monthly_expenses > 0
                  THEN Divide(p.existing_investments, p.monthly_expenses)
                  ELSE Divide(0, 1)
    IN  [raised |-> Raises(months),
         points |-> IF Raises(months) THEN 0
                    ELSE IF FracLT(Divide(6, 1), months) THEN 25
                    ELSE IF FracLE(Divide(3, 1), months) THEN 15
                    ELSE IF FracLE(Divide(1, 1), months) THEN 8
                    ELSE 0]

\* Emergency fund check.  emergency_fund_months is
\* existing_investments / monthly_expenses if monthly_expenses > 0 else 0.
EmergencyFundPoints(p) ==
    LET months == IF p.monthly_expenses > 0
                  THEN Divide(p.existing_investments, p.monthly_expenses)
                  ELSE Divide(0, 1)
    IN  [raised |-> Raises(months),
         points |-> IF Raises(months) THEN 0
                    ELSE IF FracLE(Divide(6, 1), months) THEN 25
                    ELSE IF FracLE(Divide(3, 1), months) THEN 15
                    ELSE IF FracLE(Divide(1, 1), months) THEN 8
                    ELSE 0]

\* Debt-to-income ratio, scored only if monthly_salary > 0.
DebtToIncomePoints(p) ==
    IF p.monthly_salary > 0
    THEN LET debt_to_income == Divide(p.debt_amount, p.monthly_salary * 12)
         IN  [raised |-> Raises(debt_to_income),
              points |-> IF Raises(debt_to_income) THEN 0
                         ELSE IF FracLT(debt_to_income, Divide(2, 10)) THEN 25
                         ELSE IF FracLT(debt_to_income, Divide(4, 10)) THEN 15
                         ELSE IF FracLT(debt_to_income, Divide(6, 10)) THEN 8
                         ELSE 0]
    ELSE [raised |-> FALSE, points |-> 0]

\* Mutant: every savings-rate tier entered only above its threshold.
SavingsRatePointsAbove(txns) ==
    IF txns # <<>> /\ SumOfType(txns, "income") > 0
    THEN LET total_income   == SumOfType(txns, "income")
             total_expenses == SumOfType(txns, "expense")
             savings_rate   == Divide(total_income - total_expenses, total_income)
         IN  [raised |-> Raises(savings_rate),
              points |-> IF Raises(savings_rate) THEN 0
                         ELSE IF FracLT(Divide(30, 100), savings_rate) THEN 25
                         ELSE IF FracLT(Divide(20, 100), savings_rate) THEN 20
                         ELSE IF FracLT(Divide(10, 100), savings_rate) THEN 15
                         ELSE IF FracLT(Divide(5, 100), savings_rate) THEN 10
                         ELSE 0]
    ELSE [raised |-> FALSE, points |-> 0]

\* Savings rate, scored only if the list is non-empty and total_income > 0.
SavingsRatePoints(txns) ==
    IF txns # <<>> /\ SumOfType(txns, "income") > 0
    THEN LET total_income   == SumOfType(txns, "income")
             total_expenses == SumOfType(txns, "expense")
             savings_rate   == Divide(total_income - total_expenses, total_income)
         IN  [raised |-> Raises(savings_rate),
              points |-> IF Raises(savings_rate) THEN 0
                         ELSE IF FracLE(Divide(30, 100), savings_rate) THEN 25
                         ELSE IF FracLE(Divide(20, 100), savings_rate) THEN 20
                         ELSE IF FracLE(Divide(10, 100), savings_rate) THEN 15
                         ELSE IF FracLE(Divide(5, 100), savings_rate) THEN 10
                         ELSE 0]
    ELSE [raised |-> FALSE, points |-> 0]

\* Mutant: the progress of a goal without the target_amount > 0 guard.
GoalProgressUnguarded(g) ==
    LET progress == Divide(g.current_amount, g.target_amount)
    IN  IF Raises(progress) \/ FracLE(progress, Divide(1, 1))
        THEN progress ELSE Divide(1, 1)

\* Mutant: the progress of a goal without the cap min(progress, 1.0).
GoalProgressUncapped(g) ==
    IF g.target_amount > 0
    THEN Divide(g.current_amount, g.target_amount)
    ELSE Divide(0, 1)

\* min(progress, 1.0) of one goal, 0 added when target_amount <= 0.
GoalProgress(g) ==
    IF g.target_amount > 0
    THEN LET progress == Divide(g.current_amount, g.target_amount)
         IN  IF FracLE(progress, Divide(1, 1)) THEN progress ELSE Divide(1, 1)
    ELSE Divide(0, 1)

RECURSIVE goal_progress_total(_)
goal_progress_total(gs) ==
    IF gs = <<>> THEN Divide(0, 1)
    ELSE FracAdd(GoalProgress(Head(gs)), goal_progress_total(Tail(gs)))

\* Mutant: an empty goal list scored as complete progress.
GoalProgressPointsEmptyFull(gs) ==
    IF gs # <<>>
    THEN LET total == goal_progress_total(gs)
             avg   == Divide(total.n, total.d * Len(gs))
         IN  [raised |-> Raises(avg), points |-> Divide(avg.n * 25, avg.d)]
    ELSE [raised |-> FALSE, points |-> Divide(25, 1)]

\* avg_progress * 25, added only if the goal list is non-empty.
GoalProgressPoints(gs) ==
    IF gs # <<>>
    THEN LET total == goal_progress_total(gs)
             avg   == Divide(total.n, total.d * Len(gs))
         IN  [raised |-> Raises(avg), points |-> Divide(avg.n * 25, avg.d)]
    ELSE [raised |-> FALSE, points |-> Divide(0, 1)]

\* min(round(score), 100).  The goal amounts of the model are quarters of
\* the targets, so every tie of round() is an exactly representable double.
calculate_financial_health_score(p, txns, gs) ==
    LET emergency == EmergencyFundPoints(p)
        debt      == DebtToIncomePoints(p)
        saving    == SavingsRatePoints(txns)
        progress  == GoalProgressPoints(gs)
        raised    == emergency.raised \/ debt.raised \/ saving.raised
                     \/ progress.raised
        whole     == emergency.points + debt.points + saving.points
        total     == FracAdd(Divide(whole, 1), progress.points)
    IN  [raised |-> IF raised THEN "ZeroDivisionError" ELSE "none",
         value  |-> IF raised THEN 0 ELSE Min(Round(total.n, total.d), 100)]

-----------------------------------------------------------------------------
(* Inputs.  The request handlers store whatever float() and int() parse    *)
(* from the form, so amounts below zero occur among the inputs.            *)

MaxAge == 100

MaxTxns == 3

MaxHealthTxns == 2

MaxGoals == 2

MaxTicks == 6

MaxCalls == 2

SeqsUpTo(S, n) == UNION {[1..k -> S] : k \in 0..n}

Date(y, m, d) == [year |-> y, month |-> m, day |-> d]

Txn(type, category, amount) ==
    [type |-> type, category |-> category, amount |-> amount]

BudgetTransactions ==
    {Txn("income", c, a) : c \in {Salary, RentalIncome}, a \in {0, 100}}
    \cup {Txn("expense", c, a) :
            c \in {Rent, TravelInsurance, Dining, NetflixSubscription},
            a \in {-10, 30, 60}}

HealthTransactions ==
    {Txn("income", Salary, 100)}
    \cup {Txn("expense", Rent, a) : a \in {70, 80, 90, 95, 96, 196}}

Profile(age, risk, salary, expenses, investments, debt) ==
    [age |-> age, risk_tolerance |-> risk, monthly_salary |-> salary,
     monthly_expenses |-> expenses, existing_investments |-> investments,
     debt_amount |-> debt]

AllocationProfiles ==
    {Profile(age, risk, salary, 0, 0, 0) :
        age \in 1..MaxAge, risk \in RiskTolerances, salary \in {0, 1000}}

HealthProfiles ==
    LET ExpensesInvestments ==
            {<<0, 50>>, <<10, 5>>, <<10, 10>>, <<10, 30>>, <<10, 60>>}
        SalaryDebt ==
            {<<0, 50>>, <<10, 0>>, <<10, 24>>, <<10, 48>>, <<10, 72>>}
    IN  {Profile(30, "moderate", 10, ei[1], ei[2], 0) : ei \in ExpensesInvestments}
        \cup {Profile(30, "moderate", sd[1], 10, 60, sd[2]) : sd \in SalaryDebt}
        \cup {Profile(30, "moderate", 0, 0, 50, 50)}

Goal(target, current, date) ==
    [target_amount |-> target, current_amount |-> current, target_date |-> date]

HealthGoals ==
    {Goal(tc[1], tc[2], Date(2027, 6, 1)) :
        tc \in {<<0, 0>>, <<4, -4>>, <<4, 2>>, <<4, 4>>, <<4, 8>>}}

StartDate == Date(2026, 11, 1)

TargetDates ==
    {Date(2026, 9, 15), Date(2026, 11, 20), Date(2026, 12, 10),
     Date(2027, 1, 5), Date(2027, 11, 1), Date(2027, 12, 28)}

GoalInputs ==
    {Goal(tc[1], tc[2], date) :
        tc \in {<<120000, 0>>, <<100, 40>>, <<100, 100>>, <<100, 150>>, <<0, 0>>},
        date \in TargetDates}

WellTypedTransactions(txns) == \A i \in 1..Len(txns) : txns[i].amount >= 0

WellTypedProfile(p) ==
    /\ p.age > 0
    /\ p.monthly_salary >= 0 /\ p.monthly_expenses >= 0
    /\ p.existing_investments >= 0 /\ p.debt_amount >= 0

WellTypedGoal(g) == g.target_amount >= 0 /\ g.current_amount >= 0

WellTypedGoals(gs) == \A i \in 1..Len(gs) : WellTypedGoal(gs[i])

\* Values of the variables a specification does not use.
IdleProfile == Profile(30, "moderate", 0, 0, 0, 0)

IdleGoal == Goal(0, 0, StartDate)

NoAllocation == calculate_asset_allocation(IdleProfile)

NoBreakdown == calculate_budget_breakdown(<<>>)

NoScore == [raised |-> "none", value |-> 0]

\* Values of the tables and of the service variables in a specification
\* that does not use them.
NoRequest == [route |-> "none", current_user |-> 0, id |-> 0, current_amount |-> 0]

IdleRecords == transaction_rows = {} /\ goal_rows = {} /\ request = NoRequest

NoCall == [method |-> "none"]

NoResult == [raised |-> FALSE, value |-> ""]

IdleService == service_call = NoCall /\ service_result = NoResult

\* _safe_generate before it ends.  Afterwards status is "returned" or
\* "raised", calls counts the calls of generate_content, reraised tells that
\* the error of the last call was raised again, message is the text of an
\* Exception the function made itself.
NotGenerated == [status |-> "running", calls |-> 0, reraised |-> FALSE, message |-> ""]

IdleRetry ==
    /\ outcomes = <<>> /\ retries = 0 /\ attempt = 0
    /\ waits = <<>> /\ generated = NotGenerated

-----------------------------------------------------------------------------
(* Specifications: one per engine function.  Init draws the arguments,     *)
(* the action applies the function.                                        *)

InitAllocation ==
    /\ pc = "call"
    /\ profile \in AllocationProfiles
    /\ transactions = <<>> /\ goals = <<>>
    /\ goal_data = IdleGoal /\ clock = StartDate
    /\ allocation = NoAllocation /\ breakdown = NoBreakdown
    /\ savings_log = <<>> /\ score = NoScore
    /\ user_profiles = <<>> /\ requests = <<>>
    /\ IdleRecords /\ IdleService /\ IdleRetry

CallAssetAllocation ==
    /\ pc = "call"
    /\ allocation' = calculate_asset_allocation(profile)
    /\ pc' = "calculate_asset_allocation"
    /\ UNCHANGED <<profile, transactions, goals, goal_data, clock,
                   breakdown, savings_log, score>>
    /\ UNCHANGED <<user_profiles, requests>>
    /\ UNCHANGED <<recordvars, servicevars, retryvars>>

SpecAllocation == InitAllocation /\ [][CallAssetAllocation]_vars

InitBudget ==
    /\ pc = "call"
    /\ transactions \in SeqsUpTo(BudgetTransactions, MaxTxns)
    /\ profile = IdleProfile /\ goals = <<>>
    /\ goal_data = IdleGoal /\ clock = StartDate
    /\ allocation = NoAllocation /\ breakdown = NoBreakdown
    /\ savings_log = <<>> /\ score = NoScore
    /\ user_profiles = <<>> /\ requests = <<>>
    /\ IdleRecords /\ IdleService /\ IdleRetry

CallBudgetBreakdown ==
    /\ pc = "call"
    /\ breakdown' = calculate_budget_breakdown(transactions)
    /\ pc' = "calculate_budget_breakdown"
    /\ UNCHANGED <<profile, transactions, goals, goal_data, clock,
                   allocation, savings_log, score>>
    /\ UNCHANGED <<user_profiles, requests>>
    /\ UNCHANGED <<recordvars, servicevars, retryvars>>

SpecBudget == InitBudget /\ [][CallBudgetBreakdown]_vars

InitHealth ==
    /\ pc = "call"
    /\ profile \in HealthProfiles
    /\ transactions \in SeqsUpTo(HealthTransactions, MaxHealthTxns)
    /\ goals \in SeqsUpTo(HealthGoals, MaxGoals)
    /\ goal_data = IdleGoal /\ clock = StartDate
    /\ allocation = NoAllocation /\ breakdown = NoBreakdown
    /\ savings_log = <<>> /\ score = NoScore
    /\ user_profiles = <<>> /\ requests = <<>>
    /\ IdleRecords /\ IdleService /\ IdleRetry

CallHealthScore ==
    /\ pc = "call"
    /\ score' = calculate_financial_health_score(profile, transactions, goals)
    /\ pc' = "calculate_financial_health_score"
    /\ UNCHANGED <<profile, transactions, goals, goal_data, clock,
                   allocation, breakdown, savings_log>>
    /\ UNCHANGED <<user_profiles, requests>>
    /\ UNCHANGED <<recordvars, servicevars, retryvars>>

SpecHealth == InitHealth /\ [][CallHealthScore]_vars

\* The system clock moves on between requests: later the same month, or to
\* the first day of the next month.
TicksDone(c) ==
    ((c.year - StartDate.year) * 12 + (c.month - StartDate.month)) * 2
    + (IF c.day = 1 THEN 0 ELSE 1)

Tick ==
    /\ TicksDone(clock) < MaxTicks
    /\ clock' = IF clock.day = 1 THEN Date(clock.year, clock.month, 28)
                ELSE IF clock.month = 12 THEN Date(clock.year + 1, 1, 1)
                ELSE Date(clock.year, clock.month + 1, 1)
    /\ UNCHANGED <<pc, profile, transactions, goals, goal_data,
                   allocation, breakdown, savings_log, score>>
    /\ UNCHANGED <<user_profiles, requests>>
    /\ UNCHANGED <<recordvars, servicevars, retryvars>>

\* One call calculate_goal_savings(goal_data), as goals_page makes it.
CallGoalSavings ==
    /\ Len(savings_log) < MaxCalls
    /\ savings_log' = Append(savings_log,
                             [today  |-> clock,
                              result |-> calculate_goal_savings(goal_data)])
    /\ UNCHANGED <<pc, profile, transactions, goals, goal_data, clock,
                   allocation, breakdown, score>>
    /\ UNCHANGED <<user_profiles, requests>>
    /\ UNCHANGED <<recordvars, servicevars, retryvars>>

InitGoal ==
    /\ pc = "call"
    /\ goal_data \in GoalInputs
    /\ clock = StartDate
    /\ profile = IdleProfile /\ transactions = <<>> /\ goals = <<>>
    /\ allocation = NoAllocation /\ breakdown = NoBreakdown
    /\ savings_log = <<>> /\ score = NoScore
    /\ user_profiles = <<>> /\ requests = <<>>
    /\ IdleRecords /\ IdleService /\ IdleRetry

NextGoal == Tick \/ CallGoalSavings

SpecGoal == InitGoal /\ [][NextGoal]_vars

\* All four engine functions over well-typed arguments that put a zero in
\* every place a denominator is taken from.
EngineProfiles ==
    {Profile(30, "moderate", salary, expenses, investments, 24) :
        salary \in {0, 10}, expenses \in {0, 10}, investments \in {0, 60}}

EngineTransactions ==
    {Txn("income", Salary, 0), Txn("income", Salary, 100),
     Txn("expense", Rent, 30), Txn("expense", Dining, 60)}

EngineGoals == {Goal(0, 0, Date(2026, 12, 10)), Goal(4, 2, Date(2026, 12, 10))}

EngineGoalInputs ==
    {Goal(tc[1], tc[2], date) :
        tc \in {<<0, 0>>, <<100, 40>>},
        date \in {Date(2026, 11, 20), Date(2026, 12, 10)}}

InitEngine ==
    /\ pc = "call"
    /\ profile \in EngineProfiles
    /\ transactions \in SeqsUpTo(EngineTransactions, MaxHealthTxns)
    /\ goals \in SeqsUpTo(EngineGoals, MaxGoals)
    /\ goal_data \in EngineGoalInputs
    /\ clock = StartDate
    /\ allocation = NoAllocation /\ breakdown = NoBreakdown
    /\ savings_log = <<>> /\ score = NoScore
    /\ user_profiles = <<>> /\ requests = <<>>
    /\ IdleRecords /\ IdleService /\ IdleRetry

NextEngine ==
    \/ CallAssetAllocation
    \/ CallBudgetBreakdown
    \/ CallGoalSavings
    \/ CallHealthScore

SpecEngine == InitEngine /\ [][NextEngine]_vars

-----------------------------------------------------------------------------
(* POST /profile.  Every request runs in its own database session: the     *)
(* SELECT of the query and the INSERT or UPDATE flushed by the commit are  *)
(* two statements, and statements of other requests may run in between.    *)

MaxRequests == 3

Users == {1, 2}

FormAges == {30, 41}

\* A request of current_user with request.form['age'], before its query.
\* existing_profile holds the id of the row the query returned, 0 for None.
Request(user_id, age) ==
    [pc |-> "query", user_id |-> user_id, age |-> age, existing_profile |-> 0]

\* UserProfile(user_id=current_user.id, ..., age=int(request.form['age']), ...)
\* with the primary key the table assigns on insert.
UserProfile(id, user_id, age) == [id |-> id, user_id |-> user_id, age |-> age]

\* The ids of the rows that filter_by(user_id=...) selects.
filter_by(user_id) ==
    {user_profiles[i].id : i \in {j \in 1..Len(user_profiles) :
                                     user_profiles[j].user_id = user_id}}

InitProfile ==
    /\ requests \in [1..MaxRequests -> {Request(u, a) : u \in Users, a \in FormAges}]
    /\ user_profiles = <<>>
    /\ pc = "call"
    /\ profile = IdleProfile /\ transactions = <<>> /\ goals = <<>>
    /\ goal_data = IdleGoal /\ clock = StartDate
    /\ allocation = NoAllocation /\ breakdown = NoBreakdown
    /\ savings_log = <<>> /\ score = NoScore
    /\ IdleRecords /\ IdleService /\ IdleRetry

\* existing_profile = UserProfile.query.filter_by(user_id=...).first():
\* any one of the selected rows (the query has no ORDER BY), None if there
\* is none.
QueryProfile(r) ==
    /\ requests[r].pc = "query"
    /\ \E found \in (IF filter_by(requests[r].user_id) = {} THEN {0}
                     ELSE filter_by(requests[r].user_id)) :
           requests' = [requests EXCEPT ![r].existing_profile = found,
                                        ![r].pc = "commit"]
    /\ UNCHANGED <<user_profiles, pc, profile, transactions, goals, goal_data,
                   clock, allocation, breakdown, savings_log, score>>
    /\ UNCHANGED <<recordvars, servicevars, retryvars>>

\* `if existing_profile:` the fields of the row are assigned and committed.
UpdateProfile(r) ==
    /\ requests[r].pc = "commit"
    /\ requests[r].existing_profile # 0
    /\ user_profiles' =
           [i \in 1..Len(user_profiles) |->
               IF user_profiles[i].id = requests[r].existing_profile
               THEN [user_profiles[i] EXCEPT !.age = requests[r].age]
               ELSE user_profiles[i]]
    /\ requests' = [requests EXCEPT ![r].pc = "done"]
    /\ UNCHANGED <<pc, profile, transactions, goals, goal_data,
                   clock, allocation, breakdown, savings_log, score>>
    /\ UNCHANGED <<recordvars, servicevars, retryvars>>

\* `else:` a new row is added to the session and committed.
InsertProfile(r) ==
    /\ requests[r].pc = "commit"
    /\ requests[r].existing_profile = 0
    /\ user_profiles' = Append(user_profiles,
                               UserProfile(Len(user_profiles) + 1,
                                           requests[r].user_id, requests[r].age))
    /\ requests' = [requests EXCEPT ![r].pc = "done"]
    /\ UNCHANGED <<pc, profile, transactions, goals, goal_data,
                   clock, allocation, breakdown, savings_log, score>>
    /\ UNCHANGED <<recordvars, servicevars, retryvars>>

NextProfile ==
    \E r \in 1..MaxRequests :
        \/ QueryProfile(r)
        \/ UpdateProfile(r)
        \/ InsertProfile(r)

SpecProfile == InitProfile /\ [][NextProfile]_vars

-----------------------------------------------------------------------------
(* Transactions and goals of the logged-in users: budgeting and goals_page *)
(* add rows, delete_transaction and update_goal look a row up by id and    *)
(* owner.  A request is one action: its query and its commit.              *)

MaxRecords == 2

FormAmounts == {0, 8}

\* The primary key the table assigns to a new row: one more than the
\* highest key in use.
NewId(rows) ==
    IF rows = {} THEN 1
    ELSE 1 + CHOOSE m \in {r.id : r \in rows} : \A r \in rows : r.id <= m

\* Mutant: the row looked up by its id alone.
QueryByIdOnly(rows, id, user_id) == {r \in rows : r.id = id}

\* Model.query.filter_by(id=id, user_id=current_user.id): the rows that
\* first() chooses from, none for None.
QueryByIdAndUser(rows, id, user_id) ==
    {r \in rows : r.id = id /\ r.user_id = user_id}

InitRecords ==
    /\ transaction_rows = {} /\ goal_rows = {} /\ request = NoRequest
    /\ pc = "call"
    /\ profile = IdleProfile /\ transactions = <<>> /\ goals = <<>>
    /\ goal_data = IdleGoal /\ clock = StartDate
    /\ allocation = NoAllocation /\ breakdown = NoBreakdown
    /\ savings_log = <<>> /\ score = NoScore
    /\ user_profiles = <<>> /\ requests = <<>>
    /\ IdleService /\ IdleRetry

\* POST /budgeting: a Transaction of current_user is added and committed.
budgeting(current_user) ==
    /\ NewId(transaction_rows) <= MaxRecords
    /\ transaction_rows' = transaction_rows
           \cup {[id |-> NewId(transaction_rows), user_id |-> current_user]}
    /\ request' = [route |-> "budgeting", current_user |-> current_user,
                   id |-> 0, current_amount |-> 0]
    /\ UNCHANGED goal_rows

\* POST /goals: a Goal of current_user is added and committed, here with the
\* form's default current_amount.
goals_page(current_user) ==
    /\ NewId(goal_rows) <= MaxRecords
    /\ goal_rows' = goal_rows
           \cup {[id |-> NewId(goal_rows), user_id |-> current_user,
                  current_amount |-> 0]}
    /\ request' = [route |-> "goals_page", current_user |-> current_user,
                   id |-> 0, current_amount |-> 0]
    /\ UNCHANGED transaction_rows

\* POST /update_goal with goal_id and current_amount from the form.
update_goal(current_user, goal_id, current_amount) ==
    /\ goal_rows' =
           IF QueryByIdAndUser(goal_rows, goal_id, current_user) = {}
           THEN goal_rows
           ELSE LET goal == CHOOSE g \in QueryByIdAndUser(goal_rows, goal_id,
                                                          current_user) : TRUE
                IN  (goal_rows \ {goal})
                    \cup {[goal EXCEPT !.current_amount = current_amount]}
    /\ request' = [route |-> "update_goal", current_user |-> current_user,
                   id |-> goal_id, current_amount |-> current_amount]
    /\ UNCHANGED transaction_rows

\* GET /delete_transaction/<transaction_id>.
delete_transaction(current_user, transaction_id) ==
    /\ transaction_rows' =
           IF QueryByIdAndUser(transaction_rows, transaction_id, current_user) = {}
           THEN transaction_rows
           ELSE transaction_rows
                \ {CHOOSE t \in QueryByIdAndUser(transaction_rows, transaction_id,
                                                 current_user) : TRUE}
    /\ request' = [route |-> "delete_transaction", current_user |-> current_user,
                   id |-> transaction_id, current_amount |-> 0]
    /\ UNCHANGED goal_rows

NextRecords ==
    /\ \E current_user \in Users :
           \/ budgeting(current_user)
           \/ goals_page(current_user)
           \/ \E goal_id \in 1..(MaxRecords + 1), current_amount \in FormAmounts :
                  update_goal(current_user, goal_id, current_amount)
           \/ \E transaction_id \in 1..(MaxRecords + 1) :
                  delete_transaction(current_user, transaction_id)
    /\ UNCHANGED <<pc, profile, transactions, goals, goal_data, clock,
                   allocation, breakdown, savings_log, score>>
    /\ UNCHANGED <<user_profiles, requests, servicevars, retryvars>>

SpecRecords == InitRecords /\ [][NextRecords]_vars

-----------------------------------------------------------------------------
(* GeminiService: the five methods that ask the model for text.  Each is    *)
(* one `try` around its whole body, with a second `try` around the loop     *)
(* that reads the streamed response.                                        *)

MaxChunks == 2

Methods ==
    {"generate_financial_advisory", "get_daily_tip", "chat_with_coach",
     "explain_portfolio_allocation", "suggest_goal_optimization"}

\* The three fixed messages of a method: the one returned when an argument
\* is missing, the one of `except Exception as stream_error` and the one of
\* the outer `except Exception as e`.
Fallbacks(method) ==
    CASE method = "generate_financial_advisory" ->
           [missing |-> "Unable to generate advisory: Profile information is missing.",
            stream  |-> "Unable to generate advisory at this time.",
            error   |-> "Sorry, I'm unable to provide advisory at this moment. Please try again later."]
      [] method = "get_daily_tip" ->
           [missing |-> "Unable to generate tip: Profile information is missing.",
            stream  |-> "Track your expenses daily to stay on budget!",
            error   |-> "Review your spending categories to identify potential savings."]
      [] method = "chat_with_coach" ->
           [missing |-> "I couldn't understand your question. Could you please try asking again?",
            stream  |-> "I'm here to help with your financial questions. Could you please rephrase your question?",
            error   |-> "I'm experiencing some technical difficulties. Please try asking your question again."]
      [] method = "explain_portfolio_allocation" ->
           [missing |-> "Unable to explain allocation: Missing profile or allocation information.",
            stream  |-> "This allocation balances growth and safety based on your profile.",
            error   |-> "This allocation is designed to match your risk tolerance and financial goals."]
      [] method = "suggest_goal_optimization" ->
           [missing |-> "Unable to suggest optimizations: Missing goal or profile information.",
            stream  |-> "Consider increasing your monthly savings or exploring higher-yield investment options.",
            error   |-> "Stay consistent with your savings plan and review progress monthly."]

\* A chunk of the streamed response: its text ("" for a chunk without
\* text), or "error" when reading it raises.
ChunkKinds == {"Save ", "more.", "", "error"}

\* `not x` of an argument: None and the empty dict or string are falsy.
Falsy(x) == x \in {"None", "{}", ""}

\* The loop `for chunk in response: if chunk.text: response_stream +=
\* chunk.text`, from the text read so far.
RECURSIVE ReadStream(_, _)
ReadStream(chunks, response_stream) ==
    IF chunks = <<>> THEN [raised |-> FALSE, text |-> response_stream]
    ELSE IF Head(chunks) = "error" THEN [raised |-> TRUE, text |-> response_stream]
    ELSE ReadStream(Tail(chunks), response_stream \o Head(chunks))

\* Mutant: the text read before the failing chunk is returned.
StreamOrPartial(chunks, fallback) == ReadStream(chunks, "").text

\* The inner try: the whole streamed text, or the fallback of the
\* stream_error handler.
StreamOrFallback(chunks, fallback) ==
    LET read == ReadStream(chunks, "")
    IN  IF read.raised THEN fallback ELSE read.text

\* From `response = self.model.generate_content(prompt, stream=True)` to the
\* end of the method: a failing call is caught by the outer handler.
GenerateAndStream(call) ==
    IF call.generate = "raise" THEN Fallbacks(call.method).error
    ELSE StreamOrFallback(call.chunks, Fallbacks(call.method).stream)

generate_financial_advisory(call) ==
    IF Falsy(call.profile) THEN Fallbacks(call.method).missing
    ELSE GenerateAndStream(call)

\* An empty financial_data is replaced by {}.
get_daily_tip(call) ==
    IF Falsy(call.profile) THEN Fallbacks(call.method).missing
    ELSE GenerateAndStream(call)

\* The profile is optional: `if profile:` guards every use of it.
chat_with_coach(call) ==
    IF Falsy(call.user_message) THEN Fallbacks(call.method).missing
    ELSE GenerateAndStream(call)

explain_portfolio_allocation(call) ==
    IF Falsy(call.profile) \/ Falsy(call.allocation)
    THEN Fallbacks(call.method).missing
    ELSE GenerateAndStream(call)

\* The goal argument None.
NoGoalArgument == [target_date |-> "None", target_amount |-> 0]

\* goal['target_date'] - datetime.now() is a TypeError for a date, and
\* goal['current_amount'] / goal['target_amount'] a ZeroDivisionError for a
\* target of 0; both are raised before the model is called.
suggest_goal_optimization(call) ==
    IF call.goal = NoGoalArgument \/ Falsy(call.profile)
    THEN Fallbacks(call.method).missing
    ELSE IF call.goal.target_date = "date" \/ call.goal.target_amount = 0
    THEN Fallbacks(call.method).error
    ELSE GenerateAndStream(call)

\* The value the called method returns.  No statement of a method is
\* outside its outer try, so nothing is raised to the caller.
Returned(call) ==
    [raised |-> FALSE,
     value  |-> CASE call.method = "generate_financial_advisory" ->
                       generate_financial_advisory(call)
                  [] call.method = "get_daily_tip" -> get_daily_tip(call)
                  [] call.method = "chat_with_coach" -> chat_with_coach(call)
                  [] call.method = "explain_portfolio_allocation" ->
                       explain_portfolio_allocation(call)
                  [] call.method = "suggest_goal_optimization" ->
                       suggest_goal_optimization(call)]

ProfileArguments == {"None", "{}", "dict"}

GoalArguments ==
    {NoGoalArgument} \cup {[target_date |-> d, target_amount |-> a] :
                              d \in {"date", "datetime"}, a \in {0, 4}}

\* The arguments of a call and what the model does during it.
ServiceCalls ==
    {[method |-> m, profile |-> p, user_message |-> u, allocation |-> a,
      goal |-> g, generate |-> c, chunks |-> s] :
        m \in Methods, p \in ProfileArguments,
        u \in {"", "How do I save?"}, a \in {"None", "dict"},
        g \in GoalArguments, c \in {"ok", "raise"},
        s \in SeqsUpTo(ChunkKinds, MaxChunks)}

\* Arguments a method does not take are left at their first value.
TakesArguments(call) ==
    /\ call.method # "chat_with_coach" => call.user_message = ""
    /\ call.method # "explain_portfolio_allocation" => call.allocation = "None"
    /\ call.method # "suggest_goal_optimization" => call.goal = NoGoalArgument

InitService ==
    /\ service_call \in {call \in ServiceCalls : TakesArguments(call)}
    /\ service_result = NoResult
    /\ pc = "call"
    /\ profile = IdleProfile /\ transactions = <<>> /\ goals = <<>>
    /\ goal_data = IdleGoal /\ clock = StartDate
    /\ allocation = NoAllocation /\ breakdown = NoBreakdown
    /\ savings_log = <<>> /\ score = NoScore
    /\ user_profiles = <<>> /\ requests = <<>>
    /\ IdleRecords /\ IdleRetry

CallService ==
    /\ pc = "call"
    /\ service_result' = Returned(service_call)
    /\ pc' = service_call.method
    /\ UNCHANGED <<profile, transactions, goals, goal_data, clock,
                   allocation, breakdown, savings_log, score>>
    /\ UNCHANGED <<user_profiles, requests, service_call, recordvars, retryvars>>

SpecService == InitService /\ [][CallService]_vars

-----------------------------------------------------------------------------
(* GeminiService._safe_generate: one action per pass of the loop            *)
(* `for attempt in range(retries)`, one for the raise after the loop.       *)

MaxRetries == 3

DefaultRetries == 3

\* str(e) of the errors generate_content raises.
QuotaError == <<"4", "2", "9", " ", "q", "u", "o", "t", "a">>

TimeoutError == <<"5", "0", "4", " ", "t", "i", "m", "e", "o", "u", "t">>

TraceError == <<"5", "0", "0", " ", "i", "d", "=", "1", "4", "2", "9", "0">>

Response == [raises |-> FALSE, text |-> <<>>]

Error(text) == [raises |-> TRUE, text |-> text]

Outcomes == {Response, Error(QuotaError), Error(TimeoutError), Error(TraceError)}

\* "429" in str(e)
RateLimitHit(outcome) == Contains(<<"4", "2", "9">>, outcome.text)

\* Mutant: the same wait after every rate-limit error.
WaitFlat(loop_attempt) == 10

\* wait = 10 * (attempt + 1)
Wait(loop_attempt) == 10 * (loop_attempt + 1)

InitRetry ==
    /\ retries \in 0..MaxRetries
    /\ outcomes \in [1..MaxRetries -> Outcomes]
    /\ attempt = 0 /\ waits = <<>> /\ generated = NotGenerated
    /\ pc = "call"
    /\ profile = IdleProfile /\ transactions = <<>> /\ goals = <<>>
    /\ goal_data = IdleGoal /\ clock = StartDate
    /\ allocation = NoAllocation /\ breakdown = NoBreakdown
    /\ savings_log = <<>> /\ score = NoScore
    /\ user_profiles = <<>> /\ requests = <<>>
    /\ IdleRecords /\ IdleService

\* One pass of the loop body: the call, and the handler if it raises.
Attempt ==
    /\ generated.status = "running"
    /\ attempt < retries
    /\ LET outcome == outcomes[attempt + 1]
       IN  IF ~outcome.raises
           THEN /\ generated' = [generated EXCEPT !.status = "returned",
                                                  !.calls = attempt + 1]
                /\ UNCHANGED <<attempt, waits>>
           ELSE IF RateLimitHit(outcome)
           THEN /\ waits' = Append(waits, Wait(attempt))
                /\ attempt' = attempt + 1
                /\ generated' = [generated EXCEPT !.calls = attempt + 1]
           ELSE /\ generated' = [generated EXCEPT !.status = "raised",
                                                  !.calls = attempt + 1,
                                                  !.reraised = TRUE]
                /\ UNCHANGED <<attempt, waits>>
    /\ UNCHANGED <<outcomes, retries>>

\* raise Exception("Gemini failed after retries") once range(retries) is
\* used up.
GiveUp ==
    /\ generated.status = "running"
    /\ attempt >= retries
    /\ generated' = [generated EXCEPT !.status = "raised",
                                      !.message = "Gemini failed after retries"]
    /\ UNCHANGED <<outcomes, retries, attempt, waits>>

NextRetry ==
    /\ Attempt \/ GiveUp
    /\ UNCHANGED <<pc, profile, transactions, goals, goal_data, clock,
                   allocation, breakdown, savings_log, score>>
    /\ UNCHANGED <<user_profiles, requests, recordvars, servicevars>>

\* generate_content and time.sleep return: the running function takes its
\* next step.
SpecRetry == InitRetry /\ [][NextRetry]_vars /\ WF_vars(NextRetry)

-----------------------------------------------------------------------------
(* Properties                                                              *)

AllocationSum == allocation.equity + allocation.debt + allocation.gold

\* C1: for every profile with age > 0, the equity, debt and gold percentages
\* returned by calculate_asset_allocation sum to exactly 100.
C1_AllocationSumsTo100 ==
    pc = "calculate_asset_allocation" /\ profile.age > 0 => AllocationSum = 100

\* C2: for every profile with age > 0, the rounded equity + debt + gold is
\* within 1 of 100.
C2_AllocationSumWithinOne ==
    pc = "calculate_asset_allocation" /\ profile.age > 0
        => AllocationSum \in {99, 100, 101}

\* C3: for every profile, transaction list and goal list, the health score
\* is an integer of the closed range 0..100.
C3_ScoreWithin0And100 ==
    pc = "calculate_financial_health_score" => score.value \in 0..100

\* C4: a goal with current_amount >= target_amount needs 0 monthly savings,
\* whatever the target date and the current date; the monthly savings
\* returned is never negative.
C4_MetGoalNeedsNothing ==
    \A i \in 1..Len(savings_log) :
        /\ savings_log[i].result.n >= 0
        /\ goal_data.current_amount >= goal_data.target_amount
               => savings_log[i].result.n = 0

SameMonth(a, b) == a.year = b.year /\ a.month = b.month

C6_NoDivisionByZero ==
    /\ WellTypedProfile(profile) /\ WellTypedTransactions(transactions)
    /\ WellTypedGoals(goals) /\ WellTypedGoal(goal_data)
    => /\ pc = "calculate_budget_breakdown" => breakdown.raised = "none"
       /\ pc = "calculate_financial_health_score" => score.raised = "none"
       /\ \A i \in 1..Len(savings_log) : ~Raises(savings_log[i].result)

\* The health score of a profile with no expenses and no salary, a list of
\* one zero income and a goal list holding a goal with target_amount = 0,
\* after the savings of a goal with target_amount = 0 were computed.
C6_Witness ==
    /\ pc = "calculate_financial_health_score"
    /\ profile.monthly_expenses = 0 /\ profile.monthly_salary = 0
    /\ transactions = <<Txn("income", Salary, 0)>>
    /\ Len(goals) = 2 /\ goals[1].target_amount = 0 /\ goals[2].target_amount > 0
    /\ score.raised = "none"
    /\ savings_log # <<>> /\ goal_data.target_amount = 0

IsZero(x) == x.d # 0 /\ x.n = 0

\* C7: for every transaction list whose total income is 0, the percentages
\* of needs, wants and savings are all 0.
C7_ZeroIncomeZeroPercentages ==
    /\ pc = "calculate_budget_breakdown"
    /\ \A i \in 1..Len(transactions) :
           transactions[i].type = "income" => transactions[i].amount = 0
    => /\ breakdown.raised = "none"
       /\ IsZero(breakdown.needs.percentage)
       /\ IsZero(breakdown.wants.percentage)
       /\ IsZero(breakdown.savings.percentage)

\* A list of expenses only, with a needs and a wants amount, and no income.
C7_Witness ==
    /\ pc = "calculate_budget_breakdown"
    /\ Len(transactions) = 3
    /\ \A i \in 1..Len(transactions) :
           transactions[i].type = "income" => transactions[i].amount = 0
    /\ breakdown.needs.amount > 0 /\ breakdown.wants.amount > 0
    /\ breakdown.savings.amount < 0
    /\ IsZero(breakdown.savings.percentage)

\* The categories whose lower-cased string holds no needs and no wants
\* keyword.
UnmatchedCategories ==
    {c \in Categories :
        /\ \A k \in 1..Len(needs_categories) :
               ~Contains(needs_categories[k], lower(c))
        /\ \A k \in 1..Len(wants_categories) :
               ~Contains(wants_categories[k], lower(c))}

Unmatched(t) == t.type = "expense" /\ t.category \in UnmatchedCategories

RECURSIVE UnmatchedAmount(_)
UnmatchedAmount(txns) ==
    IF txns = <<>> THEN 0
    ELSE (IF Unmatched(Head(txns)) THEN Head(txns).amount ELSE 0)
         + UnmatchedAmount(Tail(txns))

Matched(t) == ~Unmatched(t)

\* C8: an expense matching neither keyword list adds its amount to
\* total_expenses (and lowers the savings amount) and adds nothing to the
\* needs and wants amounts: against the breakdown of the list without such
\* expenses, needs and wants are the same and total_expenses is larger by
\* their amounts; and needs + wants <= total_expenses for non-negative
\* transactions.
C8_UnmatchedExpenseOnlyInTotal ==
    pc = "calculate_budget_breakdown" =>
        LET without == calculate_budget_breakdown(SelectSeq(transactions, Matched))
            extra   == UnmatchedAmount(transactions)
        IN  /\ breakdown.needs.amount = without.needs.amount
            /\ breakdown.wants.amount = without.wants.amount
            /\ breakdown.total_expenses = without.total_expenses + extra
            /\ breakdown.savings.amount = without.savings.amount - extra
            /\ WellTypedTransactions(transactions)
                   => breakdown.needs.amount + breakdown.wants.amount
                          <= breakdown.total_expenses

\* An income, a needs expense and a "Netflix Subscription" expense.
C8_Witness ==
    /\ pc = "calculate_budget_breakdown"
    /\ transactions = <<Txn("income", Salary, 100), Txn("expense", Rent, 30),
                        Txn("expense", NetflixSubscription, 60)>>
    /\ Unmatched(transactions[3])
    /\ breakdown.total_expenses = 90
    /\ breakdown.needs.amount = 30 /\ breakdown.wants.amount = 0
    /\ breakdown.savings.amount = 10

\* C9: equity is max(100 - age, 20) for moderate risk, that less 20 but at
\* least 20 for conservative risk, that plus 20 but at most 80 for
\* aggressive risk; age 25 aggressive gives 80, age 70 conservative gives 20.
C9_EquityByAgeAndRisk ==
    pc = "calculate_asset_allocation" /\ profile.age > 0 =>
        LET base == IF 100 - profile.age > 20 THEN 100 - profile.age ELSE 20
        IN  /\ profile.risk_tolerance = "moderate" => allocation.equity = base
            /\ profile.risk_tolerance = "conservative"
                   => allocation.equity = (IF base - 20 > 20 THEN base - 20 ELSE 20)
            /\ profile.risk_tolerance = "aggressive"
                   => allocation.equity = (IF base + 20 < 80 THEN base + 20 ELSE 80)
            /\ profile.age = 25 /\ profile.risk_tolerance = "aggressive"
                   => allocation.equity = 80
            /\ profile.age = 70 /\ profile.risk_tolerance = "conservative"
                   => allocation.equity = 20

C9_Witness ==
    /\ pc = "calculate_asset_allocation"
    /\ profile.age = 25 /\ profile.risk_tolerance = "aggressive"
    /\ allocation.equity = 80

\* C10: when the target date's calendar month is strictly later than the
\* current one and current_amount < target_amount, the result is
\* (target_amount - current_amount) / months_remaining; target 120000,
\* current 0, twelve calendar months ahead gives 10000.
C10_SavingsPerRemainingMonth ==
    \A i \in 1..Len(savings_log) :
        LET today  == savings_log[i].today
            months == 12 * (goal_data.target_date.year - today.year)
                      + goal_data.target_date.month - today.month
            needed == goal_data.target_amount - goal_data.current_amount
        IN  /\ months > 0 /\ needed > 0
                => /\ ~Raises(savings_log[i].result)
                   /\ savings_log[i].result.n * months
                          = needed * savings_log[i].result.d
            /\ months = 12 /\ needed = 120000
                => FracEQ(savings_log[i].result, Divide(10000, 1))

C10_Witness ==
    /\ savings_log # <<>>
    /\ savings_log[1].today = Date(2026, 11, 28)
    /\ goal_data = Goal(120000, 0, Date(2027, 11, 1))
    /\ FracEQ(savings_log[1].result, Divide(10000, 1))

\* C11: when the target date falls in the current calendar month or in an
\* earlier one, the result is target_amount - current_amount, whatever the
\* days of the month of the two dates.
C11_WholeAmountOnceTargetMonthReached ==
    \A i \in 1..Len(savings_log) :
        LET today == savings_log[i].today
            due   == \/ goal_data.target_date.year < today.year
                     \/ /\ goal_data.target_date.year = today.year
                        /\ goal_data.target_date.month <= today.month
        IN  due => /\ ~Raises(savings_log[i].result)
                   /\ FracEQ(savings_log[i].result,
                             Divide(goal_data.target_amount
                                    - goal_data.current_amount, 1))

\* The target day is weeks ahead in the current month at the first call and
\* already past at the second.
C11_Witness ==
    /\ Len(savings_log) = 2
    /\ goal_data = Goal(100, 40, Date(2026, 11, 20))
    /\ savings_log[1].today = Date(2026, 11, 1)
    /\ savings_log[2].today = Date(2026, 11, 28)
    /\ FracEQ(savings_log[1].result, Divide(60, 1))
    /\ FracEQ(savings_log[2].result, Divide(60, 1))

\* The best case of each of the four factors of the health score.
AllGoalsComplete ==
    /\ goals # <<>>
    /\ \A i \in 1..Len(goals) : /\ goals[i].target_amount > 0
                                /\ goals[i].current_amount >= goals[i].target_amount

BestProfile ==
    /\ profile.monthly_expenses > 0
    /\ profile.existing_investments >= 6 * profile.monthly_expenses
    /\ profile.monthly_salary > 0
    /\ 10 * profile.debt_amount < 2 * 12 * profile.monthly_salary

BestSavingsRate ==
    LET income   == SumOfType(transactions, "income")
        expenses == SumOfType(transactions, "expense")
    IN  /\ income > 0
        /\ 10 * (income - expenses) >= 3 * income

\* C12: the score is exactly 100 when the emergency fund covers at least six
\* months of expenses, the debt is below 0.2 of the yearly salary, the
\* transactions have positive income with a savings rate of at least 0.3,
\* and the goal list is non-empty with every goal fully funded.
C12_BestInputsScore100 ==
    (pc = "calculate_financial_health_score"
        /\ BestProfile /\ BestSavingsRate /\ AllGoalsComplete)
    => (score.raised = "none" /\ score.value = 100)

\* Exactly six months of expenses, a savings rate of exactly 0.3, one goal
\* met exactly and one over-funded.
C12_Witness ==
    /\ pc = "calculate_financial_health_score"
    /\ BestProfile /\ BestSavingsRate /\ AllGoalsComplete
    /\ profile.existing_investments = 6 * profile.monthly_expenses
    /\ SumOfType(transactions, "income") = 100
    /\ SumOfType(transactions, "expense") = 70
    /\ Len(goals) = 2
    /\ goals[1].current_amount = goals[1].target_amount
    /\ goals[2].current_amount > goals[2].target_amount
    /\ score.value = 100

\* The emergency-fund and debt-to-income tiers of a profile, restated on
\* whole numbers.
EmergencyTier(p) ==
    IF p.monthly_expenses <= 0 THEN 0
    ELSE IF p.existing_investments >= 6 * p.monthly_expenses THEN 25
    ELSE IF p.existing_investments >= 3 * p.monthly_expenses THEN 15
    ELSE IF p.existing_investments >= p.monthly_expenses THEN 8
    ELSE 0

DebtTier(p) ==
    IF p.monthly_salary <= 0 THEN 0
    ELSE IF 10 * p.debt_amount < 2 * 12 * p.monthly_salary THEN 25
    ELSE IF 10 * p.debt_amount < 4 * 12 * p.monthly_salary THEN 15
    ELSE IF 10 * p.debt_amount < 6 * 12 * p.monthly_salary THEN 8
    ELSE 0

\* C13: with an empty transaction list and an empty goal list the score is
\* the sum of the emergency-fund and debt-to-income sub-scores, and it is at
\* most 50.
C13_ProfileOnlyScoreAtMost50 ==
    (pc = "calculate_financial_health_score"
        /\ transactions = <<>> /\ goals = <<>>)
    => /\ score.raised = "none"
       /\ score.value = EmergencyTier(profile) + DebtTier(profile)
       /\ score.value <= 50

\* Both lists empty and both profile factors in their top tier.
C13_Witness ==
    /\ pc = "calculate_financial_health_score"
    /\ transactions = <<>> /\ goals = <<>>
    /\ EmergencyTier(profile) = 25 /\ DebtTier(profile) = 25
    /\ score.value = 50

NonNegative(x) == x.d # 0 /\ x.n >= 0

\* C14: for transactions with non-negative amounts and a profile with a
\* non-negative monthly_salary, total_income, total_expenses, the needs and
\* wants amounts, the three recommended amounts and emergency_fund_amount
\* are non-negative, and the savings amount is negative exactly when
\* total_expenses > total_income.
C14_MonetaryOutputsNonNegative ==
    /\ (breakdown # NoBreakdown /\ WellTypedTransactions(transactions))
       => /\ breakdown.total_income >= 0
          /\ breakdown.total_expenses >= 0
          /\ breakdown.needs.amount >= 0
          /\ breakdown.wants.amount >= 0
          /\ NonNegative(breakdown.needs.recommended)
          /\ NonNegative(breakdown.wants.recommended)
          /\ NonNegative(breakdown.savings.recommended)
          /\ (breakdown.savings.amount < 0
                <=> breakdown.total_expenses > breakdown.total_income)
    /\ (allocation # NoAllocation /\ profile.monthly_salary >= 0)
       => allocation.emergency_fund_amount >= 0

\* The breakdown of a salaried user whose expenses, in both buckets, exceed
\* the income.
C14_Witness ==
    /\ pc = "calculate_budget_breakdown"
    /\ WellTypedTransactions(transactions)
    /\ profile.monthly_salary > 0
    /\ calculate_asset_allocation(profile).emergency_fund_amount > 0
    /\ breakdown.needs.amount > 0 /\ breakdown.wants.amount > 0
    /\ breakdown.total_expenses > breakdown.total_income
    /\ breakdown.savings.amount < 0

\* The sum of the amounts of the expense transactions with a category in cats.
RECURSIVE ExpensesIn(_, _)
ExpensesIn(txns, cats) ==
    IF txns = <<>> THEN 0
    ELSE (IF Head(txns).type = "expense" /\ Head(txns).category \in cats
          THEN Head(txns).amount ELSE 0)
         + ExpensesIn(Tail(txns), cats)

HasKeyword(keywords, category) ==
    \E k \in 1..Len(keywords) : Contains(keywords[k], lower(category))

\* C15: each expense is counted in at most one of needs and wants, needs
\* first: "Rent" and "Travel Insurance" add to needs only, "Dining" to wants
\* only, "Netflix Subscription" to neither; income transactions, "rental_income"
\* included, add to neither bucket.
C15_NeedsBeforeWants ==
    pc = "calculate_budget_breakdown" =>
        /\ breakdown.needs.amount
               = ExpensesIn(transactions, {Rent, TravelInsurance})
        /\ breakdown.wants.amount = ExpensesIn(transactions, {Dining})
        /\ breakdown.needs.amount + breakdown.wants.amount
               = ExpensesIn(transactions, {Rent, TravelInsurance, Dining})

\* "Travel Insurance" holds a needs keyword and a wants keyword, and
\* "rental_income" a needs keyword; the first is spent next to a "Dining"
\* expense, the second is earned.
C15_Witness ==
    /\ pc = "calculate_budget_breakdown"
    /\ transactions = <<Txn("income", RentalIncome, 100),
                        Txn("expense", TravelInsurance, 30),
                        Txn("expense", Dining, 60)>>
    /\ HasKeyword(needs_categories, TravelInsurance)
    /\ HasKeyword(wants_categories, TravelInsurance)
    /\ HasKeyword(needs_categories, RentalIncome)
    /\ breakdown.needs.amount = 30 /\ breakdown.wants.amount = 60

\* C16: the needs status is "good" iff the needs amount is at most 50% of
\* the total income and "over" otherwise, the wants status likewise with
\* 30%, and the savings status is "good" iff total_income - total_expenses
\* is at least 20% of the total income and "under" otherwise.
C16_StatusBy503020 ==
    pc = "calculate_budget_breakdown" =>
        LET income   == SumOfType(transactions, "income")
            expenses == SumOfType(transactions, "expense")
        IN  /\ breakdown.needs.status
                   = IF 100 * breakdown.needs.amount <= 50 * income
                     THEN "good" ELSE "over"
            /\ breakdown.wants.status
                   = IF 100 * breakdown.wants.amount <= 30 * income
                     THEN "good" ELSE "over"
            /\ breakdown.savings.status
                   = IF 100 * (income - expenses) >= 20 * income
                     THEN "good" ELSE "under"

\* Needs above 50%, wants at exactly 30%, savings below 20%.
C16_Witness ==
    /\ pc = "calculate_budget_breakdown"
    /\ breakdown.total_income = 100
    /\ breakdown.needs.amount = 60 /\ breakdown.needs.status = "over"
    /\ breakdown.wants.amount = 30 /\ breakdown.wants.status = "good"
    /\ breakdown.savings.amount = 10 /\ breakdown.savings.status = "under"

\* The sum, over the goals with target_amount > 0, of
\* min(current_amount / target_amount, 1).
RECURSIVE CappedProgressSum(_)
CappedProgressSum(gs) ==
    IF gs = <<>> THEN Divide(0, 1)
    ELSE LET g    == Head(gs)
             term == IF g.target_amount <= 0 THEN Divide(0, 1)
                     ELSE IF g.current_amount >= g.target_amount
                          THEN Divide(1, 1)
                          ELSE Divide(g.current_amount, g.target_amount)
         IN  FracAdd(term, CappedProgressSum(Tail(gs)))

\* 25 * CappedProgressSum / number of goals, and 0 for an empty list.
ExpectedGoalPoints(gs) ==
    IF gs = <<>> THEN Divide(0, 1)
    ELSE LET sum == CappedProgressSum(gs)
         IN  Divide(25 * sum.n, sum.d * Len(gs))

\* C17: the goal-progress sub-score is added only for a non-empty goal list
\* and equals 25 * (sum over the goals with target_amount > 0 of
\* min(current_amount / target_amount, 1)) / (number of goals); the returned
\* score is the rounded sum of it and the score of the same profile and
\* transactions without goals; for non-negative amounts it lies in 0..25.
C17_GoalProgressSubScore ==
    pc = "calculate_financial_health_score" =>
        LET base     == calculate_financial_health_score(profile, transactions,
                                                         <<>>).value
            expected == ExpectedGoalPoints(goals)
        IN  /\ score.raised = "none"
            /\ FracEQ(GoalProgressPoints(goals).points, expected)
            /\ score.value
                   = Min(Round(base * expected.d + expected.n, expected.d), 100)
            /\ goals = <<>> => score.value = base
            /\ WellTypedGoals(goals)
                   => /\ FracLE(Divide(0, 1), expected)
                      /\ FracLE(expected, Divide(25, 1))

\* One goal funded twice over next to one funded by half: 25 * 1.5 / 2, not
\* the 25 of two goals funded 2.5 times over taken together.
C17_Witness ==
    /\ pc = "calculate_financial_health_score"
    /\ Len(goals) = 2
    /\ goals[1].target_amount = 4 /\ goals[1].current_amount = 8
    /\ goals[2].target_amount = 4 /\ goals[2].current_amount = 2
    /\ FracEQ(GoalProgressPoints(goals).points, Divide(75, 4))
    /\ transactions = <<>>
    /\ score.value
           = calculate_financial_health_score(profile, <<>>, <<>>).value + 19

\* The savings-rate tier of a transaction list, restated on whole numbers:
\* rate >= t/100 is 100 * (income - expenses) >= t * income.
SavingsTier(txns) ==
    LET income == SumOfType(txns, "income")
        saved  == income - SumOfType(txns, "expense")
    IN  IF txns = <<>> \/ income <= 0 THEN 0
        ELSE IF 100 * saved >= 30 * income THEN 25
        ELSE IF 100 * saved >= 20 * income THEN 20
        ELSE IF 100 * saved >= 10 * income THEN 15
        ELSE IF 100 * saved >= 5 * income THEN 10
        ELSE 0

\* C18: the savings-rate sub-score is 0 for an empty transaction list or a
\* total income of 0, and otherwise 25, 20, 15, 10 or 0 as the rate
\* (total_income - total_expenses) / total_income is at least 0.3, 0.2, 0.1,
\* 0.05 or lower, negative rates included; it is what the transactions add
\* to the score of the profile alone.
C18_SavingsRateSubScore ==
    pc = "calculate_financial_health_score" =>
        /\ SavingsRatePoints(transactions).points = SavingsTier(transactions)
        /\ goals = <<>>
               => score.value
                      = calculate_financial_health_score(profile, <<>>, <<>>).value
                        + SavingsTier(transactions)

\* Expenses above the income: a negative rate adds nothing.
C18_Witness ==
    /\ pc = "calculate_financial_health_score"
    /\ goals = <<>>
    /\ SumOfType(transactions, "income") > 0
    /\ SumOfType(transactions, "expense") > SumOfType(transactions, "income")
    /\ SavingsTier(transactions) = 0
    /\ score.value = EmergencyTier(profile) + DebtTier(profile)

\* The equity share of the profile of the state under risk tolerance r: the
\* returned one for the risk tolerance of the call.
EquityUnder(r) ==
    IF r = profile.risk_tolerance THEN allocation.equity
    ELSE calculate_asset_allocation([profile EXCEPT !.risk_tolerance = r]).equity

\* C19: for every age > 0 the equity percentage is ordered by risk
\* tolerance, equity(conservative) <= equity(moderate) <= equity(aggressive).
C19_EquityOrderedByRisk ==
    pc = "calculate_asset_allocation" /\ profile.age > 0
        => /\ EquityUnder("conservative") <= EquityUnder("moderate")
           /\ EquityUnder("moderate") <= EquityUnder("aggressive")

\* C20: after any interleaving of POST /profile requests each user has at
\* most one row of user_profiles.
C20_OneProfilePerUser ==
    \A u \in Users : Cardinality(filter_by(u)) <= 1

\* The owner of the row with the given id, 0 if there is no such row.
OwnerOf(rows, id) ==
    IF \E r \in rows : r.id = id
    THEN (CHOOSE r \in rows : r.id = id).user_id ELSE 0

\* C21: a transaction is deleted only by a delete_transaction request of its
\* owner naming its id, a goal's current_amount changes only by an
\* update_goal request of its owner naming its id, and a delete_transaction
\* or update_goal request naming another user's record or no record leaves
\* every stored transaction and goal unchanged.
C21_OnlyTheOwnerChangesARecord ==
    [][ /\ \A t \in transaction_rows \ transaction_rows' :
               /\ request'.route = "delete_transaction"
               /\ request'.current_user = t.user_id
               /\ request'.id = t.id
        /\ \A g \in goal_rows :
               \/ g \in goal_rows'
               \/ /\ request'.route = "update_goal"
                  /\ request'.current_user = g.user_id
                  /\ request'.id = g.id
                  /\ [g EXCEPT !.current_amount = request'.current_amount]
                         \in goal_rows'
        /\ (request'.route = "delete_transaction"
              /\ OwnerOf(transaction_rows, request'.id) # request'.current_user)
               => UNCHANGED <<transaction_rows, goal_rows>>
        /\ (request'.route = "update_goal"
              /\ OwnerOf(goal_rows, request'.id) # request'.current_user)
               => UNCHANGED <<transaction_rows, goal_rows>>
      ]_vars

\* User 2 has just asked to delete the transaction of user 1 and to no
\* effect: the row is still there, next to a goal of user 1.
C21_Witness ==
    /\ request.route = "delete_transaction"
    /\ request.current_user = 2
    /\ OwnerOf(transaction_rows, request.id) = 1
    /\ \E g \in goal_rows : g.user_id = 1 /\ g.current_amount = 8

\* A required argument of the call is None or empty.
RequiredInputMissing ==
    \/ /\ service_call.method \in {"generate_financial_advisory", "get_daily_tip",
                                   "explain_portfolio_allocation",
                                   "suggest_goal_optimization"}
       /\ service_call.profile \in {"None", "{}"}
    \/ service_call.method = "chat_with_coach" /\ service_call.user_message = ""
    \/ /\ service_call.method = "explain_portfolio_allocation"
       /\ service_call.allocation = "None"
    \/ /\ service_call.method = "suggest_goal_optimization"
       /\ service_call.goal.target_date = "None"

ModelCallFails == service_call.generate = "raise"

SomeChunkFails ==
    \E i \in 1..Len(service_call.chunks) : service_call.chunks[i] = "error"

\* C22: each of the five methods returns a text and raises nothing; when a
\* required argument is missing, the model call fails or reading a chunk of
\* the streamed response fails, the text is one of the fixed messages of
\* the method (the one for a missing argument in the first case) and holds
\* none of the streamed text.
C22_AlwaysATextNeverAnError ==
    pc \in Methods =>
        LET fixed == Fallbacks(service_call.method)
        IN  /\ ~service_result.raised
            /\ service_result.value \in STRING
            /\ RequiredInputMissing => service_result.value = fixed.missing
            /\ (RequiredInputMissing \/ ModelCallFails \/ SomeChunkFails)
                   => service_result.value
                          \in {fixed.missing, fixed.stream, fixed.error}

\* explain_portfolio_allocation, as portfolio calls it, reads one chunk of
\* text and fails on the second.
C22_Witness ==
    /\ pc = "explain_portfolio_allocation"
    /\ service_call.profile = "dict" /\ service_call.allocation = "dict"
    /\ service_call.generate = "ok"
    /\ service_call.chunks = <<"Save ", "error">>
    /\ service_result.value
           = "This allocation balances growth and safety based on your profile."

\* The error texts of the model that hold "429".
RateLimitTexts == {QuotaError, TraceError}

RateLimitedAt(k) == outcomes[k].raises /\ outcomes[k].text \in RateLimitTexts

\* The number of the first call, among the `retries` calls allowed, that
\* does not end in a rate-limit error; 0 if there is none.
FirstDecisive ==
    LET decisive == {k \in 1..retries : ~RateLimitedAt(k)}
    IN  IF decisive = {} THEN 0
        ELSE CHOOSE k \in decisive : \A j \in decisive : k <= j

\* What has happened so far in _safe_generate agrees with the claim.
RetriesAsClaimed ==
    /\ generated.calls <= retries
    /\ Len(waits) <= generated.calls
    /\ \A k \in 1..Len(waits) : RateLimitedAt(k) /\ waits[k] = 10 * k
    /\ generated.status = "returned"
           => /\ generated.calls = FirstDecisive
              /\ generated.calls >= 1 /\ ~outcomes[generated.calls].raises
              /\ Len(waits) = generated.calls - 1
    /\ (generated.status = "raised" /\ generated.reraised)
           => /\ generated.calls = FirstDecisive
              /\ generated.calls >= 1 /\ outcomes[generated.calls].raises
              /\ outcomes[generated.calls].text \notin RateLimitTexts
              /\ Len(waits) = generated.calls - 1
              /\ generated.message = ""
    /\ (generated.status = "raised" /\ ~generated.reraised)
           => /\ FirstDecisive = 0
              /\ generated.message = "Gemini failed after retries"
              /\ generated.calls = retries /\ Len(waits) = retries

\* C23: _safe_generate ends after at most `retries` calls of the model: it
\* returns the first response; an error without "429" in its text is raised
\* again at once; after a "429" error at call k it waits 10 * k seconds; and
\* when every call hit the rate limit it raises "Gemini failed after
\* retries".
C23_SafeGenerateTerminates ==
    /\ []RetriesAsClaimed
    /\ <>(generated.status # "running")

\* The default three attempts, all rate limited: waits of 10, 20 and 30
\* seconds, then the exception of the function itself.
C23_Witness ==
    /\ retries = DefaultRetries
    /\ generated.status = "raised" /\ ~generated.reraised
    /\ generated.calls = 3
    /\ waits = <<10, 20, 30>>
    /\ \E k \in 1..3 : outcomes[k].text = TraceError

====
